---- MODULE Spec2Model ----
(***************************************************************************)
(* Model of pdf-compressor.js: main's batch loop, processBatch's bounded   *)
(* fan-out of compressPage calls, the gs -> qpdf -> mutool chain of every   *)
(* page with its best-of-three selection and original-file fallback, and   *)
(* mergePDFs with the document-level fallback.                             *)
(*                                                                         *)
(* Files are abstracted to a size and a tag naming who wrote the bytes.    *)
(* External processes are abstracted to their exit status and the size of  *)
(* the file they leave.                                                    *)
(***************************************************************************)
EXTENDS Integers, Sequences, FiniteSets, TLC

\* ------------------------------------------------------------------ bounds
MaxPages == 2
MaxBatch == 2
MaxPageSize == 2
MaxToolSize == 3
MaxDocSize == 2
MaxPrevPages == 3
MaxPoolPages == 3
MaxPoolBatch == 3
MaxLogLines == 4

\* ------------------------------------------------------- program constants
CONCURRENT_TASKS == 2
PadWidth == 5

\* DEFAULT_OPTIONS, which main overrides flag by flag from argv
DEFAULT_OPTIONS ==
    [createMerged |-> TRUE, keepPages |-> TRUE,
     createMetadata |-> TRUE, createThumbnails |-> TRUE]
Flags == DOMAIN DEFAULT_OPTIONS

\* The command lines explored: no flag, each --no-* flag alone, and the
\* README's "only merged output" (--no-pages --no-thumbnails --no-metadata).
NegatedFlagSets ==
    {{}} \cup {{f} : f \in Flags} \cup {{"keepPages", "createThumbnails", "createMetadata"}}

\* const options = {...DEFAULT_OPTIONS, createMerged: !argv['no-merge'], ...,
\*                  batchSize: argv['batch-size']}
optionsOf(negated, size) ==
    [createMerged |-> "createMerged" \notin negated,
     keepPages |-> "keepPages" \notin negated,
     createMetadata |-> "createMetadata" \notin negated,
     createThumbnails |-> "createThumbnails" \notin negated,
     batchSize |-> size]

Tools == <<"gs", "qpdf", "mutool">>
Executables == {"gs", "qpdf", "mutool", "pdftocairo"}

Pages == 1..(IF MaxPages > MaxPoolPages THEN MaxPages ELSE MaxPoolPages)
PageSizes == 1..MaxPageSize
ToolSizes == 1..MaxToolSize
MergedSizes == 1..(MaxDocSize + 1)
BatchSizes == 1..MaxBatch
PoolBatchSizes == 1..MaxPoolBatch
\* --batch-size is a yargs number without any validation: 0 is accepted
AnyBatchSizes == 0..MaxBatch
FileNumbers == Pages \cup 1..MaxPrevPages

\* ------------------------------------------------------------ file names
RECURSIVE Pow10(_)
Pow10(k) == IF k = 0 THEN 1 ELSE 10 * Pow10(k - 1)

\* String(pageNum).padStart(5, '0'): the decimal digits, left-padded with 0
padStart(n) == [k \in 1..PadWidth |-> (n \div Pow10(PadWidth - k)) % 10]

\* mutant of PageName: two consecutive pages get one name
PageName_pair(n) == padStart((n + 1) \div 2)

\* `page_${ String(pageNum).padStart(5, '0') }.pdf`, kept as its digit string
PageName(n) == padStart(n)

\* The paths one page's task writes, as <<directory, page name, suffix>>:
\* tempPath and outputPath of processBatch, the `${outputFile}.tmp` of
\* optimizeWithQpdf and optimizeWithMutool, and generateThumbnail's
\* out/thumbnails/<basename of outputPath with '_thumb.jpg' for '.pdf'>
tempPath(n) == <<"temp", PageName(n), ".pdf">>
outputPath(n) == <<"pages", PageName(n), ".pdf">>
tmpPath(n) == <<"pages", PageName(n), ".pdf.tmp">>
thumbnailPath(n) == <<"thumbnails", PageName(n), "_thumb.jpg">>
writePaths(n) == {tempPath(n), outputPath(n), tmpPath(n), thumbnailPath(n)}

\* parseInt(name.match(/\d+/)[0]): the first run of digits read in base 10
RECURSIVE parseDigits(_, _, _)
parseDigits(ds, k, acc) ==
    IF k > Len(ds) THEN acc ELSE parseDigits(ds, k + 1, 10 * acc + ds[k])
parseInt(name) == parseDigits(name, 1, 0)

FileNames == {PageName(n) : n \in FileNumbers}

NoFile == [size |-> -1, content |-> "none"]
File(s, c) == [size |-> s, content |-> c]
EmptyDir == [f \in FileNames |-> NoFile]
readdir(dir) == {f \in FileNames : dir[f] # NoFile}

\* ------------------------------------------------------------------ state
VARIABLES
    installed,      \* executables `which` finds
    options,        \* options built from argv (main, lines 550-557)
    totalPages,     \* pdfDoc.getPageCount() of the input document
    docSize,        \* size of the input file (fs.stat(inputFile).size)
    prevPages,      \* pages 1..prevPages left in out/ by an earlier run
    pc,             \* position of main
    i,              \* main's loop variable
    batchStart, batchEnd,
    pageNum,        \* processBatch's loop variable
    promises,       \* processBatch's promises array (pages it holds)
    batchStats, stats,
    page,           \* per page: the compressPage call and its closure
    result,         \* value the last compressPage promise resolved with
    tempDirExists, tempFiles,
    pagesDir, thumbnails, metadataFiles,
    outFile,        \* out/<inputbasename>_compressed.pdf
    mergedPages, mergedLength,   \* mergePDFs' locals
    batchLog,       \* the "Processing batch from page a to b" lines
    compressCalls,  \* number of compressPage calls made per page
    unbatched,      \* the statistics of one processBatch over all the pages:
                    \* every page result folded into a single accumulator
    warnings,       \* the 'Warning: ...' lines written to the console, in order
    zeroDenominators \* the reported ratios that were divided by zero

inputs == <<installed, options, totalPages, docSize, prevPages>>
mainVars == <<i, batchStart, batchEnd, batchLog>>
batchVars == <<pageNum, promises, batchStats, compressCalls, unbatched>>
pageVars == <<page, result>>
dirVars == <<tempDirExists, tempFiles, pagesDir, thumbnails>>
mergeVars == <<outFile, mergedPages, mergedLength, metadataFiles>>
logVars == <<warnings, zeroDenominators>>
vars == <<inputs, pc, mainVars, batchVars, stats, pageVars, dirVars, mergeVars, logVars>>

ZeroCounts == [gs |-> 0, qpdf |-> 0, mutool |-> 0, original |-> 0]
ZeroStats ==
    [totalOriginalSize |-> 0, totalCompressedSize |-> 0, bestToolCounts |-> ZeroCounts]

IdlePage ==
    [st |-> "idle", input |-> "none", failed |-> "none", err |-> "none",
     originalSize |-> 0, gsSize |-> 0, qpdfSize |-> 0, mutoolSize |-> 0]
NoResult ==
    [page |-> 0, size |-> 0, originalSize |-> 0, usedOriginal |-> FALSE,
     gs |-> 0, qpdf |-> 0, mutool |-> 0, bestTool |-> "none"]

\* the state main starts in, whatever the command line and the document
Start ==
    /\ docSize = MaxDocSize
    /\ pc = "start"
    /\ i = 0 /\ batchStart = 0 /\ batchEnd = 0 /\ batchLog = <<>>
    /\ pageNum = 0 /\ promises = {} /\ batchStats = ZeroStats
    /\ compressCalls = [p \in Pages |-> 0]
    /\ unbatched = ZeroStats
    /\ stats = ZeroStats
    /\ page = [p \in Pages |-> IdlePage]
    /\ result = NoResult
    /\ tempDirExists = FALSE
    /\ tempFiles = [f \in FileNames |-> -1]
    /\ pagesDir = [f \in FileNames |->
                     IF parseInt(f) <= prevPages THEN File(1, "stale") ELSE NoFile]
    /\ thumbnails = {}
    /\ metadataFiles = {}
    /\ outFile = IF prevPages > 0 THEN File(1, "stale") ELSE NoFile
    /\ mergedPages = <<>>
    /\ mergedLength = 0
    /\ warnings = <<>>
    /\ zeroDenominators = {}

Init ==
    /\ installed \in SUBSET Executables
    /\ options \in {optionsOf(n, b) : n \in NegatedFlagSets, b \in BatchSizes}
    /\ totalPages \in 0..MaxPages
    /\ prevPages \in {0, MaxPrevPages}
    /\ Start

\* Runs of the default command line on a machine with every tool installed and
\* an empty out/, over longer documents and larger batches.
InitPool ==
    /\ installed = Executables
    /\ options \in {optionsOf({}, b) : b \in PoolBatchSizes}
    /\ totalPages \in 0..MaxPoolPages
    /\ prevPages = 0
    /\ Start

\* ------------------------------------------------------------- selection
Min(a, b) == IF a < b THEN a ELSE b

\* const compressionResults = [{tool:'gs',..},{tool:'qpdf',..},{tool:'mutool',..}]
compressionResults(gsSize, qpdfSize, mutoolSize) ==
    << [tool |-> "gs", size |-> gsSize],
       [tool |-> "qpdf", size |-> qpdfSize],
       [tool |-> "mutool", size |-> mutoolSize] >>

\* mutant of reducer: a later tool of equal size replaces the earlier one
reducer_le(best, current) == IF current.size <= best.size THEN current ELSE best

\* (best, current) => current.size < best.size ? current : best
reducer(best, current) == IF current.size < best.size THEN current ELSE best

\* Array.prototype.reduce without an initial value: starts from element 1
RECURSIVE reduceFrom(_, _, _)
reduceFrom(seq, k, acc) ==
    IF k > Len(seq) THEN acc ELSE reduceFrom(seq, k + 1, reducer(acc, seq[k]))
bestResult(gsSize, qpdfSize, mutoolSize) ==
    LET rs == compressionResults(gsSize, qpdfSize, mutoolSize)
    IN  reduceFrom(rs, 2, rs[1])

\* mutant of useOriginal: an equal-size result is shipped instead of the original
useOriginal_gt(best, originalSize) == best.size > originalSize

\* if (bestResult.size >= originalSize)
useOriginal(best, originalSize) == best.size >= originalSize

\* ------------------------------------------------------------ statistics
\* mutant of addResult: a page that kept its original is not counted
addResult_uncounted(bs, r) ==
    [totalOriginalSize |-> bs.totalOriginalSize + r.originalSize,
     totalCompressedSize |-> bs.totalCompressedSize + r.size,
     bestToolCounts |->
        IF r.bestTool = "original" THEN bs.bestToolCounts
        ELSE [bs.bestToolCounts EXCEPT ![r.bestTool] = bs.bestToolCounts[r.bestTool] + 1]]

\* the .then handler of processBatch: fold one page result into batchStats
addResult(bs, r) ==
    [totalOriginalSize |-> bs.totalOriginalSize + r.originalSize,
     totalCompressedSize |-> bs.totalCompressedSize + r.size,
     bestToolCounts |->
        [bs.bestToolCounts EXCEPT ![r.bestTool] = bs.bestToolCounts[r.bestTool] + 1]]

\* mutant of aggregate: the batch's statistics replace the document's
aggregate_overwrite(st, bs) == bs

\* main: stats.x += batchStats.x for both totals and every tool count
aggregate(st, bs) ==
    [totalOriginalSize |-> st.totalOriginalSize + bs.totalOriginalSize,
     totalCompressedSize |-> st.totalCompressedSize + bs.totalCompressedSize,
     bestToolCounts |->
        [t \in DOMAIN st.bestToolCounts |-> st.bestToolCounts[t] + bs.bestToolCounts[t]]]

\* ------------------------------------------------------------------ main
Alive == pc \notin {"done", "exit1"}

\* checkExecutable('gs'), ('qpdf'), ('mutool'), and ('pdftocairo') if thumbnails
checkedExecutables(opts) ==
    {"gs", "qpdf", "mutool"} \cup
        (IF opts.createThumbnails THEN {"pdftocairo"} ELSE {})

\* process.exit(1) inside checkExecutable, before any directory is made
CheckExecutables ==
    /\ pc = "start"
    /\ pc' = IF checkedExecutables(options) \subseteq installed THEN "dirs" ELSE "exit1"
    /\ UNCHANGED <<logVars, inputs, mainVars, batchVars, stats, pageVars, dirVars, mergeVars>>

\* ensureDir(outDir), (tempDir), (pagesDir), (thumbnailsDir): existing content stays
EnsureDirs ==
    /\ pc = "dirs"
    /\ tempDirExists' = TRUE
    /\ pc' = "load"
    /\ UNCHANGED <<logVars, inputs, mainVars, batchVars, stats, pageVars,
                   tempFiles, pagesDir, thumbnails, mergeVars>>

\* PDFDocument.load(await fs.readFile(inputFile)); stats = {...}; i = 0
LoadDocument ==
    /\ pc = "load"
    /\ \E ok \in BOOLEAN :
        IF ok
        THEN /\ stats' = ZeroStats
             /\ i' = 0
             /\ pc' = "loop"
        ELSE /\ pc' = "exit1"
             /\ UNCHANGED <<stats, i>>
    /\ UNCHANGED <<logVars, inputs, batchStart, batchEnd, batchLog, batchVars,
                   pageVars, dirVars, mergeVars>>

\* Math.min(i + options.batchSize, totalPages)
batchEndOf(k) == Min(k + options.batchSize, totalPages)

\* mutant of nextI: the cursor skips one page between batches
nextI_skip(k) == k + options.batchSize + 1

\* i += options.batchSize
nextI(k) == k + options.batchSize

\* console.log(`Processing batch from page ${batchStart} to ${batchEnd}`); of
\* the console only the first MaxLogLines such lines are kept
logLine(log, line) == IF Len(log) < MaxLogLines THEN Append(log, line) ELSE log

\* for (let i = 0; i < totalPages; ...) { batchStart; batchEnd; processBatch(...) }
BatchLoop ==
    /\ pc = "loop"
    /\ IF i < totalPages
       THEN /\ batchStart' = i + 1
            /\ batchEnd' = batchEndOf(i)
            /\ batchLog' = logLine(batchLog, <<i + 1, batchEndOf(i)>>)
            /\ promises' = {}
            /\ batchStats' = ZeroStats
            /\ pageNum' = i + 1
            /\ pc' = "pb_loop"
       ELSE /\ pc' = "meta"
            /\ UNCHANGED <<batchStart, batchEnd, batchLog, promises, batchStats, pageNum>>
    /\ UNCHANGED <<logVars, inputs, i, compressCalls, unbatched, stats, pageVars, dirVars, mergeVars>>

\* ----------------------------------------------------------- processBatch
Awaiting == pc \in {"pb_await", "pb_await_last"}

\* mutant of poolFull: one more promise is pushed before the Promise.all
poolFull_gt(n) == n > CONCURRENT_TASKS

\* if (promises.length >= CONCURRENT_TASKS)
poolFull(n) == n >= CONCURRENT_TASKS

\* mutant of allResolved: the wait ends with the first promise that resolves
allResolved_any(ps) == \E p \in ps : page[p].st = "resolved"

\* Promise.all(promises) fulfils once every promise has resolved
allResolved(ps) == \A p \in ps : page[p].st = "resolved"

\* mutant of spawnInput: every tool is run on the extracted page
spawnInput_extracted(exe, file) == "extracted"

\* The file a tool is spawned on: gs gets inputPath (the extracted page in
\* temp/), qpdf, mutool and pdftocairo get outputPath as it is at that moment.
spawnInput(exe, file) == IF exe = "gs" THEN "extracted" ELSE file.content

\* One turn of processBatch's for loop: split page pageNum into its temp file,
\* call compressPage (fs.access, fs.stat, spawn gs) and push its promise; after
\* the loop, go to the final Promise.all or to the return.
ProcessBatchStep ==
    /\ pc = "pb_loop"
    /\ IF pageNum <= batchEnd /\ pageNum <= totalPages
       THEN \E s \in PageSizes :
            /\ tempFiles' = [tempFiles EXCEPT ![PageName(pageNum)] = s]
            /\ page' = [page EXCEPT ![pageNum] =
                          [IdlePage EXCEPT !.st = "gs", !.originalSize = s,
                                           !.input = spawnInput("gs", NoFile)]]
            /\ promises' = promises \cup {pageNum}
            /\ compressCalls' = [compressCalls EXCEPT ![pageNum] = @ + 1]
            /\ pageNum' = pageNum + 1
            /\ pc' = IF poolFull(Cardinality(promises \cup {pageNum}))
                     THEN "pb_await" ELSE "pb_loop"
       ELSE /\ pc' = IF Cardinality(promises) > 0 THEN "pb_await_last" ELSE "pb_return"
            /\ UNCHANGED <<tempFiles, page, promises, compressCalls, pageNum>>
    /\ UNCHANGED <<logVars, inputs, mainVars, batchStats, unbatched, stats, result,
                   tempDirExists, pagesDir, thumbnails, mergeVars>>

\* await Promise.all(promises): continues once every promise has resolved and
\* drops their values (promises.length = 0 inside the loop only); a rejected
\* promise makes it throw, which main's catch turns into process.exit(1).
AwaitAll ==
    /\ Awaiting
    /\ IF \E p \in promises : page[p].st = "rejected"
       THEN /\ pc' = "exit1"
            /\ UNCHANGED <<promises, result>>
       ELSE /\ allResolved(promises)
            /\ result' = NoResult
            /\ promises' = IF pc = "pb_await" THEN {} ELSE promises
            /\ pc' = IF pc = "pb_await" THEN "pb_loop" ELSE "pb_return"
    /\ UNCHANGED <<logVars, inputs, mainVars, pageNum, batchStats, compressCalls, unbatched,
                   stats, page, dirVars, mergeVars>>

\* A promise rejected while processBatch is still splitting the next page has
\* no handler yet: the runtime may end the process on the unhandled rejection
\* (exit status 1), or only warn and let the next Promise.all see it.
UnhandledRejection ==
    /\ pc = "pb_loop"
    /\ \E p \in promises : page[p].st = "rejected"
    /\ pc' = "exit1"
    /\ UNCHANGED <<logVars, inputs, mainVars, batchVars, stats, pageVars, dirVars, mergeVars>>

\* `${(1 - a / b) * 100}`: the division is made whatever b is; the name of
\* the ratio is recorded when b is 0 (the line then reads NaN% or Infinity)
divideBy(name, b) == IF b = 0 THEN {name} ELSE {}

\* the 'Batch Compression Statistics' lines, then return batchStats; main folds
\* it into stats and advances i
ProcessBatchReturn ==
    /\ pc = "pb_return"
    /\ zeroDenominators' = zeroDenominators \cup
            divideBy("batch compression ratio", batchStats.totalOriginalSize)
    /\ stats' = aggregate(stats, batchStats)
    /\ i' = nextI(i)
    /\ pc' = "loop"
    /\ UNCHANGED <<warnings, inputs, batchStart, batchEnd, batchLog, batchVars,
                   pageVars, dirVars, mergeVars>>

\* ------------------------------------------------------------ compressPage
\* the files at tempPath and at outputPath of page p
inputPage(p) == tempFiles[PageName(p)]
outputPage(p) == pagesDir[PageName(p)]

\* what spawn(exe) ends with: exit 0, a non-zero exit, or the 'error' event
Outcomes(exe) == IF exe \in installed THEN {"ok", "exit"} ELSE {"enoent"}

\* reject(...): the page's promise rejects; a Promise.all waiting on it throws
rejectPage(p, exe, e) ==
    /\ page' = [page EXCEPT ![p] =
                  [IdlePage EXCEPT !.st = "rejected", !.failed = exe, !.err = e]]
    /\ pc' = IF Awaiting THEN "exit1" ELSE pc
    /\ UNCHANGED <<result, batchStats, unbatched>>

\* resolve(r), then processBatch's .then handler
resolvePage(p, r) ==
    /\ page' = [page EXCEPT ![p] = [IdlePage EXCEPT !.st = "resolved"]]
    /\ result' = r
    /\ batchStats' = addResult(batchStats, r)
    /\ unbatched' = addResult(unbatched, r)
    /\ UNCHANGED pc

\* a file a tool has opened for writing and not finished
Partial == File(0, "partial")

\* gs, started with -sOutputFile=${outputPath}, creates the file at outputPath
\* and writes its output into it while it runs
GsWrite(p) ==
    /\ Alive
    /\ page[p].st = "gs"
    /\ "gs" \in installed
    /\ outputPage(p) # Partial
    /\ pagesDir' = [pagesDir EXCEPT ![PageName(p)] = Partial]
    /\ UNCHANGED <<logVars, inputs, pc, mainVars, batchVars, stats, pageVars,
                   tempDirExists, tempFiles, thumbnails, mergeVars>>

\* gsProcess.on('close' | 'error'): gs wrote outputPath; stat it, spawn qpdf
GsClose(p) ==
    /\ Alive
    /\ page[p].st = "gs"
    /\ \E o \in Outcomes("gs") :
        IF o = "ok"
        THEN \E s \in ToolSizes :
             /\ pagesDir' = [pagesDir EXCEPT ![PageName(p)] = File(s, "gs")]
             /\ page' = [page EXCEPT ![p].st = "qpdf", ![p].gsSize = s,
                                      ![p].input = spawnInput("qpdf", File(s, "gs"))]
             /\ UNCHANGED <<pc, result, batchStats, unbatched>>
        ELSE /\ rejectPage(p, "gs", o)
             /\ UNCHANGED pagesDir
    /\ UNCHANGED <<logVars, inputs, mainVars, pageNum, promises, compressCalls, stats,
                   tempDirExists, tempFiles, thumbnails, mergeVars>>

\* optimizeWithQpdf(outputPath, outputPath): rename of the .tmp onto outputPath
\* on exit 0, else unlink of the .tmp and a rejection; stat; spawn mutool
QpdfClose(p) ==
    /\ Alive
    /\ page[p].st = "qpdf"
    /\ \E o \in Outcomes("qpdf") :
        IF o = "ok"
        THEN \E s \in ToolSizes :
             /\ pagesDir' = [pagesDir EXCEPT ![PageName(p)] = File(s, "qpdf")]
             /\ page' = [page EXCEPT ![p].st = "mutool", ![p].qpdfSize = s,
                                      ![p].input = spawnInput("mutool", File(s, "qpdf"))]
             /\ UNCHANGED <<pc, result, batchStats, unbatched>>
        ELSE /\ rejectPage(p, "qpdf", o)
             /\ UNCHANGED pagesDir
    /\ UNCHANGED <<logVars, inputs, mainVars, pageNum, promises, compressCalls, stats,
                   tempDirExists, tempFiles, thumbnails, mergeVars>>

\* optimizeWithMutool(outputPath, outputPath), stat, the reduce over the three
\* sizes, then either the copy of the original and resolve, or spawn pdftocairo
MutoolClose(p) ==
    /\ Alive
    /\ page[p].st = "mutool"
    /\ \E o \in Outcomes("mutool") :
        IF o = "ok"
        THEN \E s \in ToolSizes :
             LET best == bestResult(page[p].gsSize, page[p].qpdfSize, s)
                 orig == page[p].originalSize
             IN  IF useOriginal(best, orig)
                 THEN /\ pagesDir' = [pagesDir EXCEPT ![PageName(p)] = File(orig, "original")]
                      /\ resolvePage(p, [page |-> p, size |-> orig, originalSize |-> orig,
                                         usedOriginal |-> TRUE, gs |-> page[p].gsSize,
                                         qpdf |-> page[p].qpdfSize, mutool |-> s,
                                         bestTool |-> "original"])
                 ELSE /\ pagesDir' = [pagesDir EXCEPT ![PageName(p)] = File(s, "mutool")]
                      /\ page' = [page EXCEPT ![p].st = "thumb", ![p].mutoolSize = s,
                                               ![p].input =
                                                   spawnInput("pdftocairo", File(s, "mutool"))]
                      /\ UNCHANGED <<pc, result, batchStats, unbatched>>
        ELSE /\ rejectPage(p, "mutool", o)
             /\ UNCHANGED pagesDir
    /\ UNCHANGED <<logVars, inputs, mainVars, pageNum, promises, compressCalls, stats,
                   tempDirExists, tempFiles, thumbnails, mergeVars>>

\* mutant of recordedSize: the size of the file left at outputPath is recorded
recordedSize_file(best, fileSize) == fileSize

\* resolve({ size: bestResult.size, ... })
recordedSize(best, fileSize) == best.size

\* generateThumbnail(outputPath, thumbnailPath) settles, then resolve({size:
\* bestResult.size, ..., bestTool: bestResult.tool})
ThumbnailClose(p) ==
    /\ Alive
    /\ page[p].st = "thumb"
    /\ \E o \in Outcomes("pdftocairo") :
        IF o = "ok"
        THEN LET best == bestResult(page[p].gsSize, page[p].qpdfSize, page[p].mutoolSize)
             IN  /\ thumbnails' = thumbnails \cup {PageName(p)}
                 /\ resolvePage(p, [page |-> p,
                                    size |-> recordedSize(best, page[p].mutoolSize),
                                    originalSize |-> page[p].originalSize,
                                    usedOriginal |-> FALSE, gs |-> page[p].gsSize,
                                    qpdf |-> page[p].qpdfSize,
                                    mutool |-> page[p].mutoolSize,
                                    bestTool |-> best.tool])
        ELSE /\ rejectPage(p, "pdftocairo", o)
             /\ UNCHANGED thumbnails
    /\ UNCHANGED <<logVars, inputs, mainVars, pageNum, promises, compressCalls, stats,
                   tempDirExists, tempFiles, pagesDir, mergeVars>>

\* ------------------------------------------------ metadata, merge, cleanup
\* extractAndSaveMetadata(inputFile, outDir, false); a throw reaches main's catch
OriginalMetadata ==
    /\ pc = "meta"
    /\ IF options.createMetadata
       THEN \E ok \in BOOLEAN :
            IF ok
            THEN /\ metadataFiles' = metadataFiles \cup {"original_pdf_metadata.txt"}
                 /\ pc' = "merge"
            ELSE /\ pc' = "exit1"
                 /\ UNCHANGED metadataFiles
       ELSE /\ pc' = "merge"
            /\ UNCHANGED metadataFiles
    /\ UNCHANGED <<logVars, inputs, mainVars, batchVars, stats, pageVars, dirVars,
                   outFile, mergedPages, mergedLength>>

\* files.filter(endsWith('.pdf')).sort((a, b) => parseInt(a) - parseInt(b))
RECURSIVE sortFiles(_)
sortFiles(S) ==
    IF S = {} THEN <<>>
    ELSE LET first == CHOOSE f \in S : \A g \in S : parseInt(f) <= parseInt(g)
         IN  <<first>> \o sortFiles(S \ {first})

\* mutant of writeMerged: the else branch leaves outputFile as it was
writeMerged_nocopy(len, old) ==
    IF len < docSize
    THEN [size |-> len, content |-> "merged"]
    ELSE old

\* if (mergedPdfBytes.length < originalSize) writeFile(outputFile, merged)
\* else copyFile(originalInputFile, outputFile)
writeMerged(len, old) ==
    IF len < docSize
    THEN [size |-> len, content |-> "merged"]
    ELSE [size |-> docSize, content |-> "original"]

\* a 'Warning: ...' line: the function that logs it and the page it is about
\* (0: the whole document)
Warning(by, pg) == [by |-> by, page |-> pg]

\* the else branch's console.log('Warning: Compressed version was larger ...')
mergeWarning(len) ==
    IF len < docSize THEN <<>> ELSE <<Warning("mergePDFs", 0)>>

\* mergePDFs(pagesDir, outputFile, inputFile); a throw reaches main's catch
MergePDFs ==
    /\ pc = "merge"
    /\ IF options.createMerged
       THEN \E ok \in BOOLEAN :
            IF ok
            THEN \E len \in MergedSizes :
                 /\ mergedPages' = sortFiles(readdir(pagesDir))
                 /\ mergedLength' = len
                 /\ outFile' = writeMerged(len, outFile)
                 /\ warnings' = warnings \o mergeWarning(len)
                 /\ pc' = "verify"
            ELSE /\ pc' = "exit1"
                 /\ UNCHANGED <<outFile, mergedPages, mergedLength, warnings>>
       ELSE /\ pc' = "cleanup"
            /\ UNCHANGED <<outFile, mergedPages, mergedLength, warnings>>
    /\ UNCHANGED <<zeroDenominators, inputs, mainVars, batchVars, stats, pageVars, dirVars, metadataFiles>>

\* main's own check: stat both files; if (final >= original) copyFile(inputFile, outputFile)
\* (fs.stat(outputFile) throws when the file is not there)
VerifyFinalSize ==
    /\ pc = "verify"
    /\ IF outFile = NoFile
       THEN /\ pc' = "exit1"
            /\ UNCHANGED <<outFile, warnings>>
       ELSE /\ outFile' = IF outFile.size >= docSize
                          THEN [size |-> docSize, content |-> "original"]
                          ELSE outFile
            /\ warnings' = IF outFile.size >= docSize
                           THEN Append(warnings, Warning("main", 0))
                           ELSE warnings
            /\ pc' = "meta2"
    /\ UNCHANGED <<zeroDenominators, inputs, mainVars, batchVars, stats, pageVars, dirVars,
                   mergedPages, mergedLength, metadataFiles>>

\* extractAndSaveMetadata(outputFile, outDir, true)
CompressedMetadata ==
    /\ pc = "meta2"
    /\ IF options.createMetadata
       THEN \E ok \in BOOLEAN :
            IF ok
            THEN /\ metadataFiles' = metadataFiles \cup {"compressed_pdf_metadata.txt"}
                 /\ pc' = "cleanup"
            ELSE /\ pc' = "exit1"
                 /\ UNCHANGED metadataFiles
       ELSE /\ pc' = "cleanup"
            /\ UNCHANGED metadataFiles
    /\ UNCHANGED <<logVars, inputs, mainVars, batchVars, stats, pageVars, dirVars,
                   outFile, mergedPages, mergedLength>>

\* fs.rm(tempDir, {recursive, force}); if (!keepPages) fs.rm(pagesDir, ...); the
\* 'Compression Summary' lines: ratio over stats.actualOriginalSize, average
\* time over stats.totalPages
Cleanup ==
    /\ pc = "cleanup"
    /\ tempDirExists' = FALSE
    /\ tempFiles' = [f \in FileNames |-> -1]
    /\ pagesDir' = IF options.keepPages THEN pagesDir ELSE EmptyDir
    /\ zeroDenominators' = zeroDenominators
            \cup divideBy("final compression ratio", docSize)
            \cup divideBy("average time per page", totalPages)
    /\ pc' = "done"
    /\ UNCHANGED <<warnings, inputs, mainVars, batchVars, stats, pageVars, thumbnails, mergeVars>>

\* ---------------------------------------------------------- specification
Next ==
    \/ CheckExecutables
    \/ EnsureDirs
    \/ LoadDocument
    \/ BatchLoop
    \/ ProcessBatchStep
    \/ AwaitAll
    \/ UnhandledRejection
    \/ ProcessBatchReturn
    \/ \E p \in Pages : GsWrite(p)
    \/ \E p \in Pages : GsClose(p)
    \/ \E p \in Pages : QpdfClose(p)
    \/ \E p \in Pages : MutoolClose(p)
    \/ \E p \in Pages : ThumbnailClose(p)
    \/ OriginalMetadata
    \/ MergePDFs
    \/ VerifyFinalSize
    \/ CompressedMetadata
    \/ Cleanup

Spec == Init /\ [][Next]_vars

\* the same program started from InitPool
SpecPool == InitPool /\ [][Next]_vars

\* Runs of the default command line with any --batch-size the CLI accepts, 0
\* included, on a machine with every tool installed and an empty out/.
InitAnyBatch ==
    /\ installed = Executables
    /\ options \in {optionsOf({}, b) : b \in AnyBatchSizes}
    /\ totalPages \in 0..MaxPages
    /\ prevPages = 0
    /\ Start

\* The event loop runs a continuation that is ready and every spawned process
\* eventually exits: the program does not stop while it has a step to take.
SpecLive == InitAnyBatch /\ [][Next]_vars /\ WF_vars(Next)

\* ------------------------------------------------------------------ claims
PostLoop == {"meta", "merge", "verify", "meta2", "cleanup", "done"}
Min3(a, b, c) == Min(a, Min(b, c))
Ceil(a, b) == (a + b - 1) \div b
sizeOf(r, tool) ==
    IF tool = "gs" THEN r.gs ELSE IF tool = "qpdf" THEN r.qpdf ELSE r.mutool
orderOf(tool) == CHOOSE k \in 1..Len(Tools) : Tools[k] = tool

\* C1: for every page whose compressPage resolved, the file at the page's
\* output path is no larger than the page's extracted input file.
C1_PerPageNonGrowth ==
    \A p \in Pages :
        (page[p].st = "resolved" /\ inputPage(p) # -1 /\ outputPage(p) # NoFile)
            => outputPage(p).size <= inputPage(p)

\* C2: when merging is enabled and the run completes, the merged output path
\* holds a file no larger than the input file, and it is the copy of the input
\* whenever the merged bytes were not smaller than the input.
C2_DocumentNonGrowth ==
    (pc = "done" /\ options.createMerged) =>
        /\ outFile # NoFile
        /\ outFile.size <= docSize
        /\ mergedLength >= docSize => outFile = File(docSize, "original")

C2_Witness ==
    /\ pc = "done" /\ options.createMerged
    /\ mergedLength >= docSize
    /\ prevPages > 0

\* C3: when the three tools succeed and the smallest measured size is not below
\* the original size, the output path holds the copy of the original and the
\* result says size = originalSize, usedOriginal, bestTool = 'original'.
C3_PerPageFallback ==
    (result.page # 0 /\ Min3(result.gs, result.qpdf, result.mutool) >= result.originalSize)
        => /\ outputPage(result.page) = File(result.originalSize, "original")
           /\ result.size = result.originalSize
           /\ result.usedOriginal
           /\ result.bestTool = "original"

C3_Witness ==
    /\ result.page # 0
    /\ Min3(result.gs, result.qpdf, result.mutool) = result.originalSize
    /\ result.mutool > result.originalSize
    /\ result.bestTool = "original"

\* C4: when every tool invocation made for a page fails, the run is not ended
\* by it: the page is not rejected, the run does not exit with status 1, and
\* the page's output is the original page file.
C4_FaultIsolation ==
    \A p \in Pages :
        page[p].failed = "gs" =>
            /\ page[p].st # "rejected"
            /\ pc # "exit1"
            /\ outputPage(p).content = "original"

\* C5: a reported bestTool other than 'original' has the minimum of the three
\* measured sizes, and among tools of that size it is the earliest of gs, qpdf,
\* mutool.
C5_WinnerSelection ==
    (result.page # 0 /\ result.bestTool # "original") =>
        /\ result.bestTool \in {Tools[k] : k \in 1..Len(Tools)}
        /\ \A k \in 1..Len(Tools) :
            /\ sizeOf(result, result.bestTool) <= sizeOf(result, Tools[k])
            /\ sizeOf(result, Tools[k]) = sizeOf(result, result.bestTool)
                   => orderOf(result.bestTool) <= k
        /\ result.size = sizeOf(result, result.bestTool)

C5_Witness ==
    /\ result.page # 0
    /\ result.bestTool = "qpdf"
    /\ result.qpdf = result.mutool
    /\ result.gs > result.qpdf

\* C6: once the batches of an N-page input have completed, the pages directory
\* holds exactly page_00001.pdf .. page_NNNNN.pdf, and mergePDFs assembles
\* exactly those N files in ascending page order.
C6_PageCountConservation ==
    LET expected == [n \in 1..totalPages |-> PageName(n)]
    IN  totalPages >= 1 =>
            /\ pc \in {"meta", "merge", "verify", "meta2", "cleanup"}
                => readdir(pagesDir) = {expected[n] : n \in 1..totalPages}
            /\ pc \in {"verify", "meta2"} => mergedPages = expected

C8_BatchingTransparent ==
    /\ pc \in {"loop"} \cup PostLoop => stats = unbatched
    /\ pc \in {"pb_loop", "pb_await", "pb_await_last", "pb_return"}
           => aggregate(stats, batchStats) = unbatched

C8_Witness ==
    /\ pc = "done"
    /\ Len(batchLog) = 2
    /\ stats.bestToolCounts["gs"] = 1
    /\ stats.bestToolCounts["original"] = 1
    /\ stats.totalCompressedSize < stats.totalOriginalSize

\* C9: when the process has ended, on the success path or through main's
\* catch, the temp directory is gone.
C9_TempCleanup ==
    pc \in {"done", "exit1"} => ~tempDirExists

\* C10: no page fails in the middle of processing because an executable is
\* missing: every executable a page spawns was checked at startup.
C10_FailFast ==
    \A p \in Pages : page[p].err # "enoent"

\* C11: with --no-thumbnails (createThumbnails = false) generateThumbnail is
\* never invoked for any page (no page is ever waiting on pdftocairo) and no
\* thumbnail file is produced.
C11_NoThumbnails ==
    ~options.createThumbnails =>
        /\ thumbnails = {}
        /\ \A p \in Pages : page[p].st # "thumb"
        /\ \A p \in Pages : page[p].failed # "pdftocairo"

\* C12: fallback is never silent: for every page whose output file is the
\* copy of the original made by compressPage, and for a final document that is
\* the copy of the input made by mergePDFs or main, a warning about that page
\* (or about the document) is on the console.
C12_FallbackNeverSilent ==
    /\ \A p \in Pages :
         outputPage(p).content = "original" =>
             \E k \in 1..Len(warnings) : warnings[k].page = p
    /\ outFile.content = "original" =>
             \E k \in 1..Len(warnings) : warnings[k].page = 0

\* C13: zero-denominator guard: no ratio or average the run reports (batch
\* compression ratio, final compression ratio, average time per page) is
\* computed with a denominator of 0, a document of 0 pages included.
C13_ZeroDenominatorGuard == zeroDenominators = {}

\* C14: partial tool failure is absorbed: a page on which one tool succeeded
\* (gs wrote its output) and a later tool, qpdf or mutool, then exited non-zero
\* or failed to start, is not rejected.
C14_PartialFailureAbsorbed ==
    \A p \in Pages :
        page[p].failed \in {"qpdf", "mutool"} => page[p].st # "rejected"

\* C15: the shipped artifact matches the reported winner: when compressPage
\* has resolved with bestTool = T and size = s, the file at the page's output
\* path is T's output (the original when T = 'original') and its size is s.
C15_ArtifactMatchesWinner ==
    result.page # 0 =>
        /\ outputPage(result.page).content = result.bestTool
        /\ outputPage(result.page).size = result.size

\* The compression tools spawned so far for a page in flight, and those of
\* them still running, read off the step of compressPage the page is at.
ChainTools == {"gs", "qpdf", "mutool"}
spawned(p) ==
    CASE page[p].st = "gs" -> {"gs"}
      [] page[p].st = "qpdf" -> {"gs", "qpdf"}
      [] page[p].st \in {"mutool", "thumb"} -> {"gs", "qpdf", "mutool"}
      [] OTHER -> {}
running(p) == {page[p].st} \cap ChainTools

inFlight == {p \in Pages : page[p].st \in {"gs", "qpdf", "mutool", "thumb"}}
\* the pages processBatch has split into temp/ and handed to compressPage
started(p) == compressCalls[p] > 0 \/ inputPage(p) # -1
tempFileCount == Cardinality({f \in FileNames : tempFiles[f] # -1})
pagesCounted(st) ==
    st.bestToolCounts.gs + st.bestToolCounts.qpdf
        + st.bestToolCounts.mutool + st.bestToolCounts.original

\* C17: bounded parallelism: at every point of a run, for every page count
\* and batch size, at most CONCURRENT_TASKS compressPage invocations have
\* started and not yet settled.
C17_BoundedParallelism == Cardinality(inFlight) <= CONCURRENT_TASKS

\* the bound is met while a further page of the same batch is still to start
C17_Witness ==
    /\ Cardinality(inFlight) = CONCURRENT_TASKS
    /\ pc = "pb_await"
    /\ pageNum <= batchEnd

\* C18: strictly sequential batches: a page is split or starts compression
\* only in the current batch, and then every page of the earlier batches has
\* resolved and the earlier batches' statistics have been returned to main.
C18_SequentialBatches ==
    \A q \in Pages :
        started(q) =>
            /\ q <= batchEnd
            /\ \A p \in 1..(batchStart - 1) : page[p].st = "resolved"
            /\ pagesCounted(stats) >= batchStart - 1

\* the single page of a second batch is in flight after a first batch of two
C18_Witness ==
    /\ Len(batchLog) = 2
    /\ batchLog[1] = <<1, 2>>
    /\ batchStart \in Pages
    /\ batchStart \in inFlight

\* C19: worker-pool slot reuse: within a batch, when a page is in flight,
\* fewer than CONCURRENT_TASKS are, and an unstarted page remains in the batch,
\* processBatch is at the point of its loop where that page can start.
C19_SlotReuse ==
    ( /\ pc \in {"pb_loop", "pb_await", "pb_await_last"}
      /\ inFlight # {}
      /\ Cardinality(inFlight) < CONCURRENT_TASKS
      /\ \A p \in Pages : page[p].st # "rejected"
      /\ pageNum <= batchEnd )
        => pc = "pb_loop"

\* C20: the temp footprint is bounded by one batch: at every point of a run
\* at most batchSize extracted single-page files are in the temp directory.
C20_TempFootprint == tempFileCount <= options.batchSize

\* C21: atomic canonical outputs: at every point of a run, also after a tool
\* has failed or the run has aborted with a page in flight, no file at a page
\* output path or at the merged output path is a partly written one.
C21_AtomicOutputs ==
    /\ \A f \in FileNames : pagesDir[f] # Partial
    /\ outFile # Partial

\* C22: with thumbnails enabled, every page whose compressPage has resolved,
\* a page that fell back to its original included, has had its thumbnail
\* generated; and generateThumbnail runs on the file at the page's output
\* path, never on the extracted page in temp/.
C22_ThumbnailForEveryPage ==
    options.createThumbnails =>
        \A p \in Pages :
            /\ page[p].st = "resolved" => PageName(p) \in thumbnails
            /\ page[p].st = "thumb" =>
                  page[p].input = outputPage(p).content /\ page[p].input # "extracted"

\* C23: path isolation between concurrent pages: no page is handed to
\* compressPage twice, and any two page compressions in flight at the same
\* time write disjoint sets of paths (temp page file, output page file, the
\* .tmp file of qpdf and mutool, thumbnail file).
C23_PathIsolation ==
    /\ \A p \in Pages : compressCalls[p] <= 1
    /\ \A p, q \in inFlight : p # q => writePaths(p) \cap writePaths(q) = {}

\* two pages in flight, both inside a tool that writes its .tmp file
C23_Witness ==
    /\ Cardinality(inFlight) = CONCURRENT_TASKS
    /\ \E p, q \in inFlight : page[p].st = "qpdf" /\ page[q].st = "mutool"

\* C24: win-count conservation: while a batch is processed, the sum of its
\* bestToolCounts over gs, qpdf, mutool and original is the number of pages of
\* the batch whose compressPage has resolved; once all batches are done, the
\* sum of the document's counts is totalPages.
C24_WinCountConservation ==
    /\ pc \in {"pb_loop", "pb_await", "pb_await_last", "pb_return"} =>
          pagesCounted(batchStats) =
              Cardinality({p \in Pages : /\ batchStart <= p /\ p <= batchEnd
                                         /\ page[p].st = "resolved"})
    /\ pc \in PostLoop => pagesCounted(stats) = totalPages

\* a batch in which one page has resolved with its original and is counted,
\* while the other page is still in flight
C24_Witness ==
    /\ pc = "pb_await"
    /\ batchStats.bestToolCounts.original = 1
    /\ pagesCounted(batchStats) = 1
    /\ inFlight # {}

\* C25: recorded sizes never grow: every resolved page records a size strictly
\* below its original size, or exactly its original size with the original
\* kept, so totalCompressedSize <= totalOriginalSize in the batch's statistics
\* and in the document's.
C25_RecordedSizesNeverGrow ==
    /\ batchStats.totalCompressedSize <= batchStats.totalOriginalSize
    /\ stats.totalCompressedSize <= stats.totalOriginalSize
    /\ result.page # 0 =>
          \/ result.size < result.originalSize
          \/ result.size = result.originalSize /\ result.usedOriginal

\* a page recorded below its original size although the last tool left a
\* larger file, in a batch whose totals shrank
C25_Witness ==
    /\ result.page # 0
    /\ ~result.usedOriginal
    /\ result.mutool > result.originalSize
    /\ batchStats.totalCompressedSize < batchStats.totalOriginalSize

\* C26: termination: every iteration of main's batch loop strictly advances
\* the page cursor i, and the run eventually ends, normally or with exit
\* status 1, for every page count and every --batch-size the CLI accepts.
C26_Termination ==
    /\ [][pc = "pb_return" => i' > i]_vars
    /\ <>(pc \in {"done", "exit1"})
====
